---- MODULE Spec2Model ----
(***************************************************************************)
(* Model of gosh-optim: the potential evaluation cache (Dynamics,          *)
(* src/src/potential.rs) and the optimizer facade (Optimizer,              *)
(* src/src/opt.rs).                                                        *)
(*                                                                         *)
(* Floats are modelled as integers plus one NaN value.  Coordinates are    *)
(* counted in units of the default epsilon (1e-8), so DefaultEpsilon is 1. *)
(* A vector norm is carried as its square, and `norm > epsilon` is decided *)
(* on the squares.                                                         *)
(***************************************************************************)
EXTENDS Integers, Sequences, FiniteSets, TLC

\* ------------------------------------------------------------------ bounds
\* coordinates of positions and displacements range over 0..MaxCoord
MaxCoord == 1
\* the evaluator is invoked at most MaxEvals times in one behaviour
MaxEvals == 3

\* ------------------------------------------------------- program constants
\* the dimension of the position vector (const N in test_dynamics)
N == 2
\* std::f64::NAN, a value outside every number the model computes
NaN == 9999
\* epsilon: 1e-8 in Dynamics::new, the unit of length of the model
DefaultEpsilon == 1

\* ------------------------------------------------------------ Option<T>
None == <<>>
Some(v) == <<v>>
unwrap(o) == o[1]
get_or_insert(o, v) == IF o = None THEN Some(v) ELSE o

\* ------------------------------------------------------------------ f64
is_nan(x) == x = NaN
fadd(a, b) == IF is_nan(a) \/ is_nan(b) THEN NaN ELSE a + b
fmul(a, b) == IF is_nan(a) \/ is_nan(b) THEN NaN ELSE a * b
\* a < b on floats: false as soon as one side is NaN
flt(a, b) == ~is_nan(a) /\ ~is_nan(b) /\ a < b
is_sign_positive(x) == x >= 0

RECURSIVE fsum(_)
fsum(s) == IF s = <<>> THEN 0 ELSE fadd(Head(s), fsum(Tail(s)))

\* the square of v.norm()
norm2(v) == fsum([i \in 1..Len(v) |-> fmul(v[i], v[i])])
\* step_size > epsilon, with step_size given by its square
exceeds(step2, eps) ==
    /\ ~is_nan(step2)
    /\ ~is_nan(eps)
    /\ (eps < 0 \/ step2 > eps * eps)
\* x.vecadd(d, 1.0)
vecadd(x, d) == [i \in 1..Len(x) |-> fadd(x[i], d[i])]
\* position - self.state.position
vecsub(x, y) == [i \in 1..Len(x) |-> fadd(x[i], fmul(-1, y[i]))]

\* ------------------------------------------------------------- inputs
Coords == 0..MaxCoord
Positions == [1..N -> Coords]
\* arguments of set_position: every position, one with a NaN, one too long
NewPositions ==
    Positions \cup {[i \in 1..N |-> NaN]} \cup {[i \in 1..(N + 1) |-> 0]}
Displacements == [1..N -> Coords \cup {NaN}]
EpsValues == {-1, 0, 1, 2}

\* --------------------------------------------------------------- state
VARIABLES
    pc,         \* "ready", or "panicked" once an assertion of Dynamics failed
    position,   \* Dynamics.state.position
    evaluated,  \* Dynamics.state.evaluated: Option<PotentialOutput>
    epsilon,    \* Dynamics.epsilon
    neval,      \* Dynamics.neval
    user_data,  \* Dynamics.user_data: Option<U>
    last,       \* the previous-state snapshot of the spec: Option<State>
    fcalls,     \* how many times the evaluator f was invoked
    ret,        \* the last call on the cache, its argument and what it returned
    run         \* the current run of consecutive get_energy/get_force calls

dynVars == <<pc, position, evaluated, epsilon, neval, user_data, last, fcalls, ret, run>>

\* --------------------------------------------------------- the evaluator
\* the evaluator of test_dynamics: f(x) = sum x_i^2, force_i = -2 x_i
energy_at(x) == norm2(x)
force_at(x) == [i \in 1..Len(x) |-> fmul(-2, x[i])]
\* the payload U an evaluation returns: it records where it was computed
extra_at(x) == [at |-> x]

\* PotentialOutput
PotentialOutput(e, f) == [energy |-> e, force |-> f]
\* State
State(x, ev) == [position |-> x, evaluated |-> ev]

\* EvaluatePotential::evaluate(position, output): `ok` is whether the evaluator
\* succeeds; a failing evaluator returns before output.energy is assigned, and
\* `wrote` is whether it had already written output.force.
evaluate(x, output, ok, wrote) ==
    IF ok
    THEN PotentialOutput(energy_at(x), force_at(x))
    ELSE PotentialOutput(output.energy, IF wrote THEN force_at(x) ELSE output.force)

\* Dynamics::eval: the slot is filled by get_or_insert BEFORE the evaluator
\* runs and is handed to it by reference, so it stays filled when the
\* evaluator fails; user_data and neval change only on success.
eval(ok, wrote) ==
    LET n    == Len(position)
        slot == get_or_insert(evaluated, PotentialOutput(NaN, [i \in 1..n |-> 0]))
    IN  [ evaluated |-> Some(evaluate(position, unwrap(slot), ok, wrote)),
          user_data |-> IF ok THEN Some(extra_at(position)) ELSE user_data,
          neval     |-> IF ok THEN neval + 1 ELSE neval,
          ok        |-> ok ]

\* ------------------------------------------------ bookkeeping of the model
\* what the caller observes of a call: the operation, its argument, how it
\* ended ("ok", "err" for a returned Err, "panic" for a failed assertion), the
\* value returned, and the cache as it was when the call was made
Ret(op, outcome, val, arg) ==
    [ op |-> op, outcome |-> outcome, val |-> val, arg |-> arg,
      pre |-> [position |-> position, evaluated |-> evaluated, neval |-> neval,
               user_data |-> user_data, last |-> last, fcalls |-> fcalls] ]

\* a run is a maximal sequence of consecutive get_energy/get_force calls:
\* calls (counted up to 2), evaluator invocations, neval when the run began,
\* whether the evaluator was invoked by a call that was not the first of the
\* run or that found a cached value, the energies and forces returned, and
\* the call that came right before the run
NoRun(base) ==
    [calls |-> 0, evals |-> 0, base |-> base, late |-> FALSE, es |-> {}, fs |-> {},
     after |-> ""]
\* one more get_energy/get_force in the current run
RunGet(evals, es, fs) ==
    [ calls |-> IF run.calls < 2 THEN run.calls + 1 ELSE 2,
      evals |-> run.evals + evals,
      base  |-> run.base,
      late  |-> run.late \/ (evals > 0 /\ (run.calls > 0 \/ evaluated # None)),
      es    |-> run.es \cup es,
      fs    |-> run.fs \cup fs,
      after |-> IF run.calls = 0 THEN ret.op ELSE run.after ]

\* a get that never finds the cached value
cached_never(ev) == FALSE
\* the match of get_energy/get_force: Some(v) is a cached value
cached(ev) == ev # None

\* ---------------------------------------------------------- operations
\* Dynamics::new(x, f)
new(x) ==
    /\ pc = "ready"
    /\ position = x
    /\ evaluated = None
    /\ epsilon = DefaultEpsilon
    /\ neval = 0
    /\ user_data = None
    /\ last = None
    /\ fcalls = 0
    /\ ret = Ret("new", "ok", <<>>, <<>>)
    /\ run = NoRun(0)

\* Dynamics::get_energy
get_energy ==
    /\ pc = "ready"
    /\ IF cached(evaluated)
       THEN /\ ret' = Ret("get_energy", "ok", <<unwrap(evaluated).energy>>, <<>>)
            /\ run' = RunGet(0, {unwrap(evaluated).energy}, {})
            /\ UNCHANGED <<evaluated, user_data, neval, fcalls>>
       ELSE /\ fcalls < MaxEvals
            /\ \E ok \in BOOLEAN, wrote \in BOOLEAN :
                 LET r == eval(ok, wrote) IN
                 /\ evaluated' = r.evaluated
                 /\ user_data' = r.user_data
                 /\ neval' = r.neval
                 /\ fcalls' = fcalls + 1
                 /\ IF r.ok
                    THEN /\ ret' = Ret("get_energy", "ok", <<unwrap(r.evaluated).energy>>, <<>>)
                         /\ run' = RunGet(1, {unwrap(r.evaluated).energy}, {})
                    ELSE /\ ret' = Ret("get_energy", "err", <<>>, <<>>)
                         /\ run' = RunGet(1, {}, {})
    /\ UNCHANGED <<pc, position, epsilon, last>>

\* Dynamics::get_force
get_force ==
    /\ pc = "ready"
    /\ IF cached(evaluated)
       THEN /\ ret' = Ret("get_force", "ok", <<unwrap(evaluated).force>>, <<>>)
            /\ run' = RunGet(0, {}, {unwrap(evaluated).force})
            /\ UNCHANGED <<evaluated, user_data, neval, fcalls>>
       ELSE /\ fcalls < MaxEvals
            /\ \E ok \in BOOLEAN, wrote \in BOOLEAN :
                 LET r == eval(ok, wrote) IN
                 /\ evaluated' = r.evaluated
                 /\ user_data' = r.user_data
                 /\ neval' = r.neval
                 /\ fcalls' = fcalls + 1
                 /\ IF r.ok
                    THEN /\ ret' = Ret("get_force", "ok", <<unwrap(r.evaluated).force>>, <<>>)
                         /\ run' = RunGet(1, {}, {unwrap(r.evaluated).force})
                    ELSE /\ ret' = Ret("get_force", "err", <<>>, <<>>)
                         /\ run' = RunGet(1, {}, {})
    /\ UNCHANGED <<pc, position, epsilon, last>>

\* Dynamics::get_extra: the match is on user_data, not on state.evaluated
get_extra ==
    /\ pc = "ready"
    /\ IF user_data # None
       THEN /\ ret' = Ret("get_extra", "ok", <<unwrap(user_data)>>, <<>>)
            /\ run' = NoRun(neval)
            /\ UNCHANGED <<evaluated, user_data, neval, fcalls>>
       ELSE /\ fcalls < MaxEvals
            /\ \E ok \in BOOLEAN, wrote \in BOOLEAN :
                 LET r == eval(ok, wrote) IN
                 /\ evaluated' = r.evaluated
                 /\ user_data' = r.user_data
                 /\ neval' = r.neval
                 /\ fcalls' = fcalls + 1
                 /\ run' = NoRun(r.neval)
                 /\ IF r.ok
                    THEN ret' = Ret("get_extra", "ok", <<unwrap(r.user_data)>>, <<>>)
                    ELSE ret' = Ret("get_extra", "err", <<>>, <<>>)
    /\ UNCHANGED <<pc, position, epsilon, last>>

\* a recount that also drops the cached energy/force
recount_clear ==
    /\ pc = "ready"
    /\ neval' = 0
    /\ evaluated' = None
    /\ ret' = Ret("recount", "ok", <<>>, <<>>)
    /\ run' = NoRun(0)
    /\ UNCHANGED <<pc, position, epsilon, user_data, last, fcalls>>

\* Dynamics::recount
recount ==
    /\ pc = "ready"
    /\ neval' = 0
    /\ ret' = Ret("recount", "ok", <<>>, <<>>)
    /\ run' = NoRun(0)
    /\ UNCHANGED <<pc, position, evaluated, epsilon, user_data, last, fcalls>>

\* Dynamics::set_epsilon
set_epsilon(eps) ==
    /\ pc = "ready"
    /\ run' = NoRun(neval)
    /\ IF is_sign_positive(eps)
       THEN /\ epsilon' = eps
            /\ ret' = Ret("set_epsilon", "ok", <<>>, <<eps>>)
            /\ UNCHANGED pc
       ELSE /\ pc' = "panicked"
            /\ ret' = Ret("set_epsilon", "panic", <<>>, <<eps>>)
            /\ UNCHANGED epsilon
    /\ UNCHANGED <<position, evaluated, neval, user_data, last, fcalls>>

\* Dynamics::step_toward: the assertion demands that the step size IS NaN
step_toward(displacement) ==
    /\ pc = "ready"
    /\ run' = NoRun(neval)
    /\ LET step_size == norm2(displacement) IN
       IF ~is_nan(step_size)
       THEN /\ pc' = "panicked"
            /\ ret' = Ret("step_toward", "panic", <<>>, displacement)
            /\ UNCHANGED <<position, evaluated>>
       ELSE /\ ret' = Ret("step_toward", "ok", <<>>, displacement)
            /\ UNCHANGED pc
            /\ IF exceeds(step_size, epsilon)
               THEN /\ position' = vecadd(position, displacement)
                    /\ evaluated' = None
               ELSE UNCHANGED <<position, evaluated>>
    /\ UNCHANGED <<epsilon, neval, user_data, last, fcalls>>

\* a set_position that compares the lengths only after it has stored the
\* new position and dropped the cached energy/force
set_position_late(new_position) ==
    /\ pc = "ready"
    /\ run' = NoRun(neval)
    /\ position' = new_position
    /\ evaluated' = None
    /\ IF Len(new_position) # Len(position)
       THEN /\ pc' = "panicked"
            /\ ret' = Ret("set_position", "panic", <<>>, new_position)
       ELSE /\ ret' = Ret("set_position", "ok", <<>>, new_position)
            /\ UNCHANGED pc
    /\ UNCHANGED <<epsilon, neval, user_data, last, fcalls>>

\* Dynamics::set_position: assert_eq! on the lengths, then the same assertion
set_position(new_position) ==
    /\ pc = "ready"
    /\ run' = NoRun(neval)
    /\ IF Len(new_position) # Len(position)
       THEN /\ pc' = "panicked"
            /\ ret' = Ret("set_position", "panic", <<>>, new_position)
            /\ UNCHANGED <<position, evaluated>>
       ELSE LET step_size == norm2(vecsub(new_position, position)) IN
            IF ~is_nan(step_size)
            THEN /\ pc' = "panicked"
                 /\ ret' = Ret("set_position", "panic", <<>>, new_position)
                 /\ UNCHANGED <<position, evaluated>>
            ELSE /\ ret' = Ret("set_position", "ok", <<>>, new_position)
                 /\ UNCHANGED pc
                 /\ IF exceeds(step_size, epsilon)
                    THEN /\ position' = new_position
                         /\ evaluated' = None
                    ELSE UNCHANGED <<position, evaluated>>
    /\ UNCHANGED <<epsilon, neval, user_data, last, fcalls>>

\* optimize(potential): one pull of the driver sequence, that is one call of
\* the closure handed to the step algorithm, with the trial vector x the
\* algorithm proposes: set_position(x), get_energy()?, get_force()?,
\* get_extra()?, ncalls().  set_position panics unless the distance from the
\* current position is NaN, and is then a no-op; get_energy evaluates when
\* nothing is cached, get_extra when user_data is None.
optimize_pull(x) ==
    /\ pc = "ready"
    /\ UNCHANGED <<epsilon, last, position>>
    /\ IF ~is_nan(norm2(vecsub(x, position)))
       THEN /\ pc' = "panicked"
            /\ ret' = Ret("optimize", "panic", <<>>, x)
            /\ UNCHANGED <<evaluated, user_data, neval, fcalls>>
       ELSE /\ UNCHANGED pc
            /\ IF cached(evaluated) /\ user_data # None
               THEN /\ ret' = Ret("optimize", "ok", <<unwrap(user_data)>>, x)
                    /\ UNCHANGED <<evaluated, user_data, neval, fcalls>>
               ELSE /\ fcalls < MaxEvals
                    /\ \E ok \in BOOLEAN, wrote \in BOOLEAN :
                         LET r == eval(ok, wrote) IN
                         /\ evaluated' = r.evaluated
                         /\ user_data' = r.user_data
                         /\ neval' = r.neval
                         /\ fcalls' = fcalls + 1
                         /\ IF r.ok
                            THEN ret' = Ret("optimize", "ok", <<unwrap(r.user_data)>>, x)
                            ELSE ret' = Ret("optimize", "err", <<>>, x)
    /\ run' = NoRun(neval')

\* the trial vectors of the step algorithm: every position, and one with NaN
Trials == Positions \cup {[i \in 1..N |-> NaN]}

\* Dynamics::revert of the spec (4.1): restore State from "last" if present
revert ==
    /\ pc = "ready"
    /\ run' = NoRun(neval)
    /\ ret' = Ret("revert", "ok", <<>>, <<>>)
    /\ IF last # None
       THEN /\ position' = unwrap(last).position
            /\ evaluated' = unwrap(last).evaluated
       ELSE UNCHANGED <<position, evaluated>>
    /\ UNCHANGED <<pc, epsilon, neval, user_data, last, fcalls>>

\* ======================================================================
\* The optimizer facade, Optimizer::optimize_geometry (src/src/opt.rs)
\* ======================================================================
\* fmax values are counted in units of 0.05: [5.0, 1.0, 0.05] is [100, 20, 1]
\* and the default threshold 0.1 is 2; the model keeps the small ones.

\* bounds of the facade
\* self.nmax ranges over 0..MaxNmax
MaxNmax == 3
\* fmax of a record and self.fmax range over 0..MaxFmax, and NaN
MaxFmax == 3

Nmaxes == 0..MaxNmax
FmaxValues == (0..MaxFmax) \cup {NaN}

\* what the process environment holds under the prefix GOSH_OPTIM_: the
\* value of GOSH_OPTIM_ALGORITHM if it is set, and whether some variable of
\* the prefix holds a value that does not parse into its field of Vars
Environment(a, m) == [algorithm |-> a, malformed |-> m]
Envs == { Environment(None, FALSE), Environment(Some("FIRE"), FALSE),
          Environment(Some("LBFGS"), FALSE), Environment(Some("FIRE"), TRUE) }

VARIABLES
    opc,        \* "start", "iterating", "returned", or "panicked"
    nmax,       \* Optimizer.nmax
    threshold,  \* Optimizer.fmax
    ckpt,       \* whether Optimizer.ckpt is Some
    take_n,     \* what is left of steps.take(self.nmax)
    niter,      \* the local niter
    fmax,       \* the local fmax
    computed,   \* the local computed: Option<ModelProperties>
    polls,      \* how many times next() was called on the driver sequence
    seen,       \* the fmax of every record the loop consumed, in order
    commits,    \* the records committed to the checkpoint store, in order
    ended,      \* the driver sequence returned None
    result,     \* what optimize_geometry returned: Option<Result<Optimized>>
    env,        \* the process environment, an element of Envs
    resumed,    \* ckpt.restore: "no" (not called), "ok" or "failed"
    built,      \* optimize_geometry_iter was called: the driver sequence exists
    algo,       \* the branch optimize_geometry_iter took: "", "FIRE" or "LBFGS"
    env0,       \* the environment optimize_geometry_iter read, once it is built
    mcalls,     \* how many times model.evaluate was called
    recs,       \* every record the loop consumed and the algorithm that made it
    fault       \* what went wrong in a pull: "none", "minimize", "compute",
                \* "no energy" or "no forces"

optVars == <<opc, nmax, threshold, ckpt, take_n, niter, fmax, computed, polls,
             seen, commits, ended, result, env, resumed, built, algo, env0,
             mcalls, recs, fault>>

\* Optimized
Optimized(n, f, mp) == [niter |-> n, fmax |-> f, computed |-> mp]
Ok(v) == [ok |-> TRUE, value |-> v]
Err(e) == [ok |-> FALSE, error |-> e]

\* OptimizedIter: the record the driver sequence yields at its k-th pull; the
\* payload `extra` (the ModelProperties) is named by the pull that made it
OptimizedIter(k, f) == [ncalls |-> k, fmax |-> f, extra |-> [mp |-> k]]

\* Vars, of which the model keeps the field algorithm
Vars(a) == [algorithm |-> a]
\* impl Default for Vars
Vars_default == Vars("LBFGS")
\* Vars::from_env: envy fills the fields that are set and takes the others
\* from Vars::default (#[serde(default)]); any error gives Vars::default()
from_env(e) ==
    IF e.malformed THEN Vars_default
    ELSE IF e.algorithm = None THEN Vars_default
    ELSE Vars(unwrap(e.algorithm))
\* `if vars.algorithm == "FIRE" { fire .. } else { lbfgs .. }`
algorithm_of(v) == IF v.algorithm = "FIRE" THEN "FIRE" ELSE "LBFGS"
\* a driver that looks the algorithm up again at every step
step_algorithm_env(resolved, e) == algorithm_of(from_env(e))
\* the algorithm that makes a record: `steps` is the iterator of the branch
\* taken at construction, whatever the environment holds by now
step_algorithm(resolved, e) == resolved

\* a take that never runs out
take_unbounded(n) == TRUE
\* Take::next: the inner sequence is asked only while n is not 0
take_has_next(n) == n # 0
\* a convergence test with <= for <
converged_le(f, thr) == ~is_nan(f) /\ ~is_nan(thr) /\ f <= thr
\* `if fmax < self.fmax`
converged(f, thr) == flt(f, thr)
\* a zip that counts from 0
zip_index0(consumed) == consumed
\* .zip(1..): the index paired with the record after `consumed` records
zip_index(consumed) == consumed + 1
\* a checkpoint that is written whether or not one is configured
commit_unconditional(cs, c, mp) == Append(cs, mp)
\* `if let Some(ckpt) = &self.ckpt { ckpt.commit(mol) }`
commit(cs, c, mp) == IF c THEN Append(cs, mp) ELSE cs
\* an ok_or that falls back to an empty payload
finish_default(mp, n, f) ==
    Ok(Optimized(n, f, IF mp = None THEN [mp |-> 0] ELSE unwrap(mp)))
\* computed.ok_or(format_err!("model was not computed")), then Ok(optimized)
finish(mp, n, f) ==
    IF mp = None
    THEN Err("model was not computed")
    ELSE Ok(Optimized(n, f, unwrap(mp)))

\* Optimizer::new(fmax, nmax), with or without .checkpoint(ckpt)
Optimizer(f, n, c) ==
    /\ opc = "start"
    /\ nmax = n
    /\ threshold = f
    /\ ckpt = c
    /\ take_n = n
    /\ niter = 0
    /\ fmax = NaN
    /\ computed = None
    /\ polls = 0
    /\ seen = <<>>
    /\ commits = <<>>
    /\ ended = FALSE
    /\ result = None
    /\ resumed = "no"
    /\ built = FALSE
    /\ algo = ""
    /\ env0 = None
    /\ mcalls = 0
    /\ recs = <<>>
    /\ fault = "none"

\* another part of the process sets or removes a GOSH_OPTIM_ variable
setenv(e) ==
    /\ opc \in {"start", "iterating"}
    /\ e # env
    /\ env' = e
    /\ UNCHANGED <<opc, nmax, threshold, ckpt, take_n, niter, fmax, computed,
                   polls, seen, commits, ended, result, resumed, built, algo,
                   env0, mcalls, recs, fault>>

\* an optimize_geometry that builds the driver sequence first and restores
\* the checkpoint afterwards
restore_late(restored, minimized) ==
    /\ opc = "start"
    /\ built' = TRUE
    /\ env0' = Some(env)
    /\ algo' = algorithm_of(from_env(env))
    /\ IF algo' = "LBFGS" /\ ~minimized
       THEN /\ opc' = "panicked"
            /\ fault' = "minimize"
            /\ UNCHANGED <<result, resumed>>
       ELSE /\ UNCHANGED fault
            /\ resumed' = IF ckpt THEN (IF restored THEN "ok" ELSE "failed") ELSE "no"
            /\ IF ckpt /\ ~restored
               THEN /\ opc' = "returned"
                    /\ result' = Some(Err("restore optimized molecule from ckpt"))
               ELSE /\ opc' = "iterating"
                    /\ UNCHANGED result
    /\ UNCHANGED <<nmax, threshold, ckpt, take_n, niter, fmax, computed, polls,
                   seen, commits, ended, env, mcalls, recs>>

\* optimize_geometry up to the loop: ckpt.restore(mol)?, then
\* optimize_geometry_iter reads the environment, takes the branch of the
\* algorithm and builds the driver sequence (the L-BFGS branch panics in
\* .expect("optimize_geometry_iter") when minimize returns Err), and the
\* locals are initialised
restore(restored, minimized) ==
    /\ opc = "start"
    /\ resumed' = IF ckpt THEN (IF restored THEN "ok" ELSE "failed") ELSE "no"
    /\ IF ckpt /\ ~restored
       THEN /\ opc' = "returned"
            /\ result' = Some(Err("restore optimized molecule from ckpt"))
            /\ UNCHANGED <<built, env0, algo, fault>>
       ELSE /\ built' = TRUE
            /\ env0' = Some(env)
            /\ algo' = algorithm_of(from_env(env))
            /\ UNCHANGED result
            /\ IF algo' = "LBFGS" /\ ~minimized
               THEN /\ opc' = "panicked"
                    /\ fault' = "minimize"
               ELSE /\ opc' = "iterating"
                    /\ UNCHANGED fault
    /\ UNCHANGED <<nmax, threshold, ckpt, take_n, niter, fmax, computed, polls,
                   seen, commits, ended, env, mcalls, recs>>

\* one turn of `for (progress, i) in steps.take(self.nmax).zip(1..)` in which
\* the closure calls model.evaluate, the record has its energy and forces and
\* the driver sequence yields a record with fmax f: commit, assign, test
pull_record(f) ==
    /\ opc = "iterating"
    /\ take_has_next(take_n)
    /\ LET progress == OptimizedIter(polls + 1, f)
           i        == zip_index(Len(seen))
       IN  /\ take_n' = take_n - 1
           /\ polls' = polls + 1
           /\ mcalls' = mcalls + 1
           /\ recs' = Append(recs, [rec |-> progress,
                                    by |-> step_algorithm(algo, env)])
           /\ commits' = commit(commits, ckpt, progress.extra)
           /\ niter' = i
           /\ fmax' = progress.fmax
           /\ computed' = Some(progress.extra)
           /\ seen' = Append(seen, progress.fmax)
           /\ IF converged(progress.fmax, threshold)
              THEN /\ opc' = "returned"
                   /\ result' = Some(finish(computed', niter', fmax'))
              ELSE UNCHANGED <<opc, result>>
    /\ UNCHANGED <<nmax, threshold, ckpt, ended, env, resumed, built, algo,
                   env0, fault>>

\* the turn in which the record the model computed lacks its energy or its
\* forces: out.energy.expect(..) or out.forces.expect(..) panics inside the pull
pull_panic(has_energy, has_forces) ==
    /\ opc = "iterating"
    /\ take_has_next(take_n)
    /\ ~(has_energy /\ has_forces)
    /\ take_n' = take_n - 1
    /\ polls' = polls + 1
    /\ mcalls' = mcalls + 1
    /\ fault' = IF ~has_energy THEN "no energy" ELSE "no forces"
    /\ opc' = "panicked"
    /\ UNCHANGED <<nmax, threshold, ckpt, niter, fmax, computed, seen, commits,
                   ended, result, env, resumed, built, algo, env0, recs>>

\* the turn in which model.evaluate returns Err and the closure returns it
\* with `?`.  The item of the driver sequence is OptimizedIter<U>, not a
\* Result: the step algorithm can end the sequence (the loop ends and
\* optimize_geometry returns what it has) or panic, it cannot hand the error on
pull_fail(ends) ==
    /\ opc = "iterating"
    /\ take_has_next(take_n)
    /\ take_n' = take_n - 1
    /\ polls' = polls + 1
    /\ mcalls' = mcalls + 1
    /\ fault' = "compute"
    /\ IF ends
       THEN /\ ended' = TRUE
            /\ opc' = "returned"
            /\ result' = Some(finish(computed, niter, fmax))
       ELSE /\ opc' = "panicked"
            /\ UNCHANGED <<ended, result>>
    /\ UNCHANGED <<nmax, threshold, ckpt, niter, fmax, computed, seen, commits,
                   env, resumed, built, algo, env0, recs>>

\* the turn in which the driver sequence is asked and has no further record:
\* the loop ends and optimize_geometry returns
pull_none ==
    /\ opc = "iterating"
    /\ take_has_next(take_n)
    /\ take_n' = take_n - 1
    /\ polls' = polls + 1
    /\ ended' = TRUE
    /\ opc' = "returned"
    /\ result' = Some(finish(computed, niter, fmax))
    /\ UNCHANGED <<nmax, threshold, ckpt, niter, fmax, computed, seen, commits,
                   env, resumed, built, algo, env0, mcalls, recs, fault>>

\* the turn in which take(nmax) is used up: the driver sequence is not asked,
\* the loop ends and optimize_geometry returns
take_done ==
    /\ opc = "iterating"
    /\ ~take_has_next(take_n)
    /\ opc' = "returned"
    /\ result' = Some(finish(computed, niter, fmax))
    /\ UNCHANGED <<nmax, threshold, ckpt, take_n, niter, fmax, computed, polls,
                   seen, commits, ended, env, resumed, built, algo, env0,
                   mcalls, recs, fault>>

vars == <<dynVars, optVars>>

\* ----------------------------------------------------- specifications
\* the cache alone: the facade is idle
Init ==
    /\ \E x \in Positions : new(x)
    /\ Optimizer(2, 0, FALSE)
    /\ env = Environment(None, FALSE)

Next ==
    \/ get_energy /\ UNCHANGED optVars
    \/ get_force /\ UNCHANGED optVars
    \/ get_extra /\ UNCHANGED optVars
    \/ recount /\ UNCHANGED optVars
    \/ \E eps \in EpsValues : set_epsilon(eps) /\ UNCHANGED optVars
    \/ \E d \in Displacements : step_toward(d) /\ UNCHANGED optVars
    \/ \E p \in NewPositions : set_position(p) /\ UNCHANGED optVars
    \/ \E x \in Trials : optimize_pull(x) /\ UNCHANGED optVars
    \/ revert /\ UNCHANGED optVars

Spec == Init /\ [][Next]_vars

\* the facade alone: one call of optimize_geometry
InitOpt ==
    /\ new([i \in 1..N |-> 0])
    /\ \E f \in FmaxValues, n \in Nmaxes, c \in BOOLEAN : Optimizer(f, n, c)
    /\ env \in Envs

NextOpt ==
    \/ \E e \in Envs : setenv(e) /\ UNCHANGED dynVars
    \/ \E restored \in BOOLEAN, minimized \in BOOLEAN :
           restore(restored, minimized) /\ UNCHANGED dynVars
    \/ \E f \in FmaxValues : pull_record(f) /\ UNCHANGED dynVars
    \/ \E he \in BOOLEAN, hf \in BOOLEAN : pull_panic(he, hf) /\ UNCHANGED dynVars
    \/ \E ends \in BOOLEAN : pull_fail(ends) /\ UNCHANGED dynVars
    \/ pull_none /\ UNCHANGED dynVars
    \/ take_done /\ UNCHANGED dynVars

SpecOpt == InitOpt /\ [][NextOpt]_vars

\* ======================================================================
\* Properties
\* ======================================================================
\* the last call was op
called(op) == ret.op = op
is_get == called("get_energy") \/ called("get_force")
\* the last call was a step_toward or a set_position (of the right length)
\* whose step size is a number above epsilon
over_threshold ==
    \/ called("step_toward") /\ exceeds(norm2(ret.arg), epsilon)
    \/ /\ called("set_position")
       /\ Len(ret.arg) = Len(ret.pre.position)
       /\ exceeds(norm2(vecsub(ret.arg, ret.pre.position)), epsilon)
\* the last call was a step_toward whose step size is a number within epsilon
under_threshold ==
    /\ called("step_toward")
    /\ ~is_nan(norm2(ret.arg))
    /\ ~exceeds(norm2(ret.arg), epsilon)

\* C1: in a run of consecutive get_energy/get_force calls the evaluator is
\* invoked at most once, and only by the first call of the run when nothing
\* was cached; neval grows by at most 1 over the run; all the energies the
\* calls of the run return are one value, and so are all the forces.
C1_CachedRun ==
    /\ run.evals <= 1
    /\ ~run.late
    /\ neval >= run.base
    /\ neval - run.base <= 1
    /\ Cardinality(run.es) <= 1
    /\ Cardinality(run.fs) <= 1
    /\ (is_get /\ ret.pre.evaluated # None) =>
           /\ evaluated = ret.pre.evaluated
           /\ neval = ret.pre.neval
           /\ ret.outcome = "ok"

\* a run of at least two calls whose first call evaluated, and in which both
\* an energy and a force were returned
C1_Witness ==
    /\ run.calls = 2
    /\ run.evals = 1
    /\ neval = run.base + 1
    /\ run.es # {}
    /\ run.fs # {}

\* C2 as claimed: step_toward(d) with |d| > epsilon completes normally, sets
\* position to the old position + d, leaves neval unchanged and clears the
\* cached energy/force (so that the next get_energy evaluates once).
C2_Original ==
    (called("step_toward") /\ over_threshold) =>
        /\ ret.outcome = "ok"
        /\ pc = "ready"
        /\ position = vecadd(ret.pre.position, ret.arg)
        /\ neval = ret.pre.neval
        /\ evaluated = None

\* C3 as claimed: step_toward(d) with |d| <= epsilon (zero included) completes
\* normally and changes nothing: position, cached energy/force, snapshot, neval.
C3_Original ==
    under_threshold =>
        /\ ret.outcome = "ok"
        /\ pc = "ready"
        /\ position = ret.pre.position
        /\ evaluated = ret.pre.evaluated
        /\ last = ret.pre.last
        /\ neval = ret.pre.neval

\* C4 as claimed: right after one over-threshold step_toward, revert() restores
\* position and cached energy/force to what they were before the step, with
\* neval unchanged; on a cache that was never mutated revert() changes nothing.
C4_Original ==
    /\ (called("step_toward") /\ over_threshold) =>
           ENABLED ( /\ revert
                     /\ position' = ret.pre.position
                     /\ evaluated' = ret.pre.evaluated
                     /\ neval' = neval
                     /\ UNCHANGED optVars )
    /\ (pc = "ready" /\ last = None) =>
           ENABLED ( /\ revert
                     /\ UNCHANGED <<position, evaluated, neval, last>>
                     /\ UNCHANGED optVars )

\* C5 as claimed: when the evaluator fails during get_energy/get_force the
\* error is returned and the cache is what it was before the call: position
\* unchanged, energy/force still absent, neval not incremented.
C5_Original ==
    (is_get /\ ret.outcome = "err") =>
        /\ position = ret.pre.position
        /\ evaluated = ret.pre.evaluated
        /\ evaluated = None
        /\ neval = ret.pre.neval

\* C6 as claimed: every over-threshold step_toward/set_position stores the
\* complete state before the mutation as the snapshot, and get_energy/get_force
\* leave the snapshot alone.
C6_Original ==
    /\ over_threshold =>
           /\ ret.outcome = "ok"
           /\ last = Some(State(ret.pre.position, ret.pre.evaluated))
    /\ is_get => last = ret.pre.last

\* C7 as claimed: undo is one level deep.  After an over-threshold mutation a
\* further over-threshold mutation can be made and replaces the snapshot by the
\* state before it, and revert() restores the state before the latest mutation
\* and keeps the snapshot, which then equals the restored state.
C7_Original ==
    over_threshold =>
        /\ \E d \in Positions :
               /\ exceeds(norm2(d), epsilon)
               /\ ENABLED ( /\ step_toward(d)
                            /\ pc' = "ready"
                            /\ last' = Some(State(position, evaluated))
                            /\ UNCHANGED optVars )
        /\ ENABLED ( /\ revert
                     /\ position' = ret.pre.position
                     /\ evaluated' = ret.pre.evaluated
                     /\ last' = Some(State(position', evaluated'))
                     /\ UNCHANGED optVars )

\* the restore step of optimize_geometry failed
restore_failed == resumed = "failed"

\* C8: the loop stops at the first record with fmax < threshold: no record is
\* consumed after such a record and the driver sequence is not asked again;
\* a record whose fmax is not < threshold (equal to it, or NaN) does not stop
\* the loop, which then ends only when take(nmax) is used up or when the
\* driver sequence has ended.
C8_StopsAtFirstConverged ==
    /\ \A i \in 1..Len(seen) : flt(seen[i], threshold) => i = Len(seen)
    /\ (seen # <<>> /\ flt(seen[Len(seen)], threshold)) =>
           /\ opc = "returned"
           /\ polls = Len(seen)
    /\ (opc = "returned" /\ seen # <<>> /\ ~flt(seen[Len(seen)], threshold)) =>
           (take_n = 0 \/ ended)
    /\ (opc = "iterating" /\ seen # <<>>) => ~flt(seen[Len(seen)], threshold)

\* the loop went past a record with fmax equal to the threshold and stopped
\* at the next one, below the threshold, with take(nmax) not used up
C8_Witness ==
    /\ opc = "returned"
    /\ Len(seen) = 2
    /\ seen[1] = threshold
    /\ flt(seen[2], threshold)
    /\ take_n > 0
    /\ polls = 2

\* C9: optimize_geometry asks the driver sequence at most nmax times and, while
\* it iterates, can always take a further turn that uses up take(nmax); when no
\* consumed record has fmax < threshold and the driver sequence did not end,
\* exactly nmax >= 1 records were pulled and the call returned Ok with
\* niter = nmax.
C9_PullsAtMostNmax ==
    /\ polls <= nmax
    /\ polls + take_n = nmax
    /\ opc = "iterating" => ENABLED NextOpt
    /\ ( /\ opc = "returned"
         /\ ~restore_failed
         /\ nmax >= 1
         /\ ~ended
         /\ \A i \in 1..Len(seen) : ~flt(seen[i], threshold) ) =>
           /\ polls = nmax
           /\ Len(seen) = nmax
           /\ result # None
           /\ unwrap(result).ok
           /\ unwrap(result).value.niter = nmax

\* a run in which every fmax was NaN: exhausted after nmax = 2 records
C9_Witness ==
    /\ opc = "returned"
    /\ nmax = 2
    /\ seen = <<NaN, NaN>>
    /\ result # None
    /\ unwrap(result).ok
    /\ unwrap(result).value.niter = 2

\* C10: when no record was consumed (nmax = 0, or the driver sequence yields
\* nothing) optimize_geometry returns the "model was not computed" error, and
\* with nmax = 0 the driver sequence is never asked.
C10_NothingComputed ==
    /\ (opc = "returned" /\ seen = <<>> /\ ~restore_failed) =>
           result = Some(Err("model was not computed"))
    /\ (opc = "returned" /\ seen # <<>>) => unwrap(result).ok
    /\ nmax = 0 => polls = 0

\* optimize_geometry with nmax = 0 returned the error without asking the driver
C10_Witness ==
    /\ opc = "returned"
    /\ nmax = 0
    /\ polls = 0
    /\ result = Some(Err("model was not computed"))
\* ---------------------------------------------------------------------
\* the cache claims C15..C19
\* the last call was a set_position whose argument has the length of the
\* position and lies at a distance that is a number
set_position_numeric ==
    /\ called("set_position")
    /\ Len(ret.arg) = Len(ret.pre.position)
    /\ ~is_nan(norm2(vecsub(ret.arg, ret.pre.position)))
\* the cache is as it was when the last call was made
cache_untouched ==
    /\ position = ret.pre.position
    /\ evaluated = ret.pre.evaluated
    /\ user_data = ret.pre.user_data
    /\ last = ret.pre.last
    /\ neval = ret.pre.neval

\* C15 as claimed: every pull of the driver sequence of optimize() makes
\* exactly one evaluator call, whatever trial vector the step algorithm
\* proposes, one within epsilon of the current position included.
C15_Original ==
    called("optimize") =>
        /\ ret.outcome # "panic"
        /\ fcalls = ret.pre.fcalls + 1

\* C16: set_position(p) with a length different from the position's ends in
\* an error outcome, the failed assert_eq!, and leaves position, cached
\* energy/force, payload, snapshot and neval as they were.
C16_LengthMismatch ==
    (called("set_position") /\ Len(ret.arg) # Len(ret.pre.position)) =>
        /\ ret.outcome = "panic"
        /\ pc = "panicked"
        /\ cache_untouched
        /\ fcalls = ret.pre.fcalls

\* set_position with a vector too long was called on a populated cache
C16_Witness ==
    /\ called("set_position")
    /\ Len(ret.arg) = Len(ret.pre.position) + 1
    /\ ret.pre.evaluated # None
    /\ ret.pre.neval = 1
    /\ pc = "panicked"

\* C17 as claimed: set_position(p) of matching length completes; within
\* epsilon of the position (p equal to it included) it changes nothing, beyond
\* epsilon the position becomes p and the cached energy/force are cleared.
C17_Original ==
    set_position_numeric =>
        /\ ret.outcome = "ok"
        /\ pc = "ready"
        /\ neval = ret.pre.neval
        /\ IF exceeds(norm2(vecsub(ret.arg, ret.pre.position)), epsilon)
           THEN position = ret.arg /\ evaluated = None
           ELSE position = ret.pre.position /\ evaluated = ret.pre.evaluated

\* C19: recount() sets neval to 0 and leaves position, cached energy/force,
\* payload and snapshot as they were; a get_energy/get_force right after it on
\* a populated cache returns the cached value, the evaluator is not invoked
\* and neval stays 0.
C19_Recount ==
    /\ called("recount") =>
           /\ neval = 0
           /\ position = ret.pre.position
           /\ evaluated = ret.pre.evaluated
           /\ user_data = ret.pre.user_data
           /\ last = ret.pre.last
           /\ fcalls = ret.pre.fcalls
    /\ (is_get /\ run.calls = 1 /\ run.after = "recount" /\ ret.pre.evaluated # None) =>
           /\ ret.outcome = "ok"
           /\ neval = 0
           /\ fcalls = ret.pre.fcalls
           /\ evaluated = ret.pre.evaluated
           /\ called("get_energy") => ret.val = <<unwrap(ret.pre.evaluated).energy>>
           /\ called("get_force") => ret.val = <<unwrap(ret.pre.evaluated).force>>

\* get_force right after a recount that zeroed a counter of 1: the force of
\* the one evaluation is returned and neval is still 0
C19_Witness ==
    /\ called("get_force")
    /\ run.calls = 1
    /\ run.after = "recount"
    /\ user_data # None
    /\ fcalls = 1
    /\ neval = 0
    /\ ret.val = <<force_at(position)>>
\* ---------------------------------------------------------------------
\* the facade claims C11..C20
\* optimize_geometry returned Ok(optimized)
succeeded == opc = "returned" /\ result # None /\ unwrap(result).ok
\* the last record the loop consumed
last_rec == recs[Len(recs)].rec

\* C11: on success optimize_geometry returns niter = the number of records it
\* consumed, fmax = the fmax of the last consumed record and computed = the
\* extra payload of that same record.
C11_ReturnsLastRecord ==
    succeeded =>
        /\ recs # <<>>
        /\ unwrap(result).value.niter = Len(recs)
        /\ unwrap(result).value.fmax = last_rec.fmax
        /\ unwrap(result).value.computed = last_rec.extra

\* a success after three records, the last of which is the one returned
C11_Witness ==
    /\ succeeded
    /\ Len(recs) = 3
    /\ unwrap(result).value.niter = 3
    /\ unwrap(result).value.fmax = 1
    /\ recs[2].rec.fmax = 3
    /\ unwrap(result).value.computed = [mp |-> 3]

\* C12: with a checkpoint store, restore is attempted before the driver
\* sequence is built; when restore fails optimize_geometry returns the error
\* with the driver sequence not built, no model call and no commit made.
C12_RestoreFirst ==
    /\ built => resumed = (IF ckpt THEN "ok" ELSE "no")
    /\ resumed = "failed" =>
           /\ ckpt
           /\ opc = "returned"
           /\ result = Some(Err("restore optimized molecule from ckpt"))
           /\ ~built
           /\ algo = ""
           /\ mcalls = 0
           /\ polls = 0
           /\ commits = <<>>

\* optimize_geometry with a checkpoint store returned the restore error
C12_Witness ==
    /\ ckpt
    /\ nmax > 0
    /\ resumed = "failed"
    /\ opc = "returned"
    /\ result # None
    /\ ~unwrap(result).ok

\* C13: with checkpointing, after every turn of the loop the commits made are
\* the payloads of the records consumed, one each and in their order, the
\* record that met the threshold included, so that there are niter commits
\* when optimize_geometry returns; without checkpointing there is no commit.
C13_CommitPerRecord ==
    /\ ckpt =>
           /\ Len(commits) = Len(recs)
           /\ \A i \in 1..Len(recs) : commits[i] = recs[i].rec.extra
           /\ Len(commits) = niter
    /\ ~ckpt => commits = <<>>

\* a checkpointed run that returned at its second record, which converged
C13_Witness ==
    /\ ckpt
    /\ succeeded
    /\ Len(recs) = 2
    /\ flt(last_rec.fmax, threshold)
    /\ commits = <<[mp |-> 1], [mp |-> 2]>>

\* C14 as claimed: when the model fails in a pull, optimize_geometry returns
\* an error to its caller, never an Ok built from the earlier records.
C14_Original ==
    fault = "compute" =>
        /\ opc = "returned"
        /\ result # None
        /\ ~unwrap(result).ok

\* C18 as claimed: when the record the model computed lacks energy or forces
\* optimize_geometry returns the error value "no energy" / "no forces".
C18_Original ==
    fault \in {"no energy", "no forces"} =>
        /\ opc = "returned"
        /\ result = Some(Err(fault))

\* C20: the algorithm is the one the configuration read at construction
\* names: FIRE when GOSH_OPTIM_ALGORITHM is FIRE (and the environment
\* parses), L-BFGS when it is LBFGS, not set, or the environment does not
\* parse; every record of the sequence is made by it, whatever the
\* environment has become since.
C20_ResolvedOnce ==
    /\ ~built => algo = "" /\ recs = <<>>
    /\ built =>
           /\ env0 # None
           /\ algo = algorithm_of(from_env(unwrap(env0)))
           /\ unwrap(env0) = Environment(Some("FIRE"), FALSE) => algo = "FIRE"
           /\ unwrap(env0).algorithm \in {None, Some("LBFGS")} => algo = "LBFGS"
           /\ unwrap(env0).malformed => algo = "LBFGS"
           /\ \A i \in 1..Len(recs) : recs[i].by = algo

\* a sequence built under FIRE made two records while the environment had
\* been changed to LBFGS after the construction
C20_Witness ==
    /\ built
    /\ env0 = Some(Environment(Some("FIRE"), FALSE))
    /\ env = Environment(Some("LBFGS"), FALSE)
    /\ Len(recs) = 2
    /\ recs[1].by = "FIRE"
    /\ recs[2].by = "FIRE"
\* ---------------------------------------------------------------------
\* the cache claims C21..C24
\* C21 as claimed: in every reachable state of the cache epsilon is a number
\* strictly greater than zero; set_epsilon rejects zero.
C21_Original == flt(0, epsilon)

\* C22 as claimed: the cached energy and force are absent together or present
\* together, and when present they are the pair one successful evaluator call
\* returned at the current position, whether evaluator calls succeed or fail.
C22_Original ==
    evaluated # None =>
        /\ fcalls > 0
        /\ unwrap(evaluated) =
               PotentialOutput(energy_at(position), force_at(position))

\* C23 as claimed: right after an over-threshold step_toward/set_position a
\* get_extra() can be made, invokes the evaluator once (neval + 1) and
\* returns the payload of the evaluation at the new position.
C23_Original ==
    (over_threshold /\ fcalls < MaxEvals) =>
        ENABLED ( /\ get_extra
                  /\ fcalls' = fcalls + 1
                  /\ neval' = neval + 1
                  /\ ret'.val = <<extra_at(position)>>
                  /\ UNCHANGED optVars )

\* the last call was a step_toward or a set_position (of the right length)
\* all of whose components are finite, so that the step size is a number
finite_input ==
    \/ called("step_toward") /\ ~is_nan(norm2(ret.arg))
    \/ set_position_numeric
    \/ called("optimize") /\ ~is_nan(norm2(vecsub(ret.arg, ret.pre.position)))

\* C24 as claimed: step_toward and set_position pass their float assertion and
\* return normally for every finite input, and the assertion fails only when
\* the step size is NaN; so a pull of optimize(), whose closure calls
\* set_position with a finite trial vector, does not abort.
C24_Original ==
    /\ finite_input => (ret.outcome # "panic" /\ pc = "ready")
    /\ ( /\ ret.op \in {"step_toward", "optimize"}
         /\ ret.outcome = "panic" ) => ~finite_input
====
